---- MODULE Spec2Model ----
(***************************************************************************)
(* Model of the template-engine front end: the pull lexer                  *)
(* (src/lexemes/lexer/mod.rs) and the recursive-descent parser             *)
(* (src/ast/parser/mod.rs).                                                *)
(*                                                                         *)
(* Source text is a sequence of one-character strings.  Only ASCII         *)
(* characters are modelled, so a character offset is a byte offset.        *)
(* The lexer cursor is the pair (chars, index): chars is the number of     *)
(* characters the Chars iterator has yielded, index is the usize counter   *)
(* the lexer keeps next to it.                                             *)
(***************************************************************************)
EXTENDS Integers, Sequences, FiniteSets, TLC

VARIABLES
    input,    \* Lexer.source / Parser.input
    chars,    \* Lexer.chars: characters already yielded by the iterator
    index,    \* Lexer.index
    op,       \* the lexer operation performed last ("new", "next", "peek", "peek_next")
    tok,      \* what that operation returned (a token, an error, or a hang)
    stack,    \* the parser's call stack, innermost frame last
    status,   \* "lexing", "parsing", "ok", "err", "panic", "hang"
    result    \* the value Parser::parse returned (nodes, or the error)

vars == <<input, chars, index, op, tok, stack, status, result>>

----------------------------------------------------------------------------
(* Characters *)

None == "<none>"            \* Option::None of a char
Nul == "<nul>"              \* the character '\0'

Digits == {"0", "1", "2", "3", "4", "5", "6", "7", "8", "9"}

Letters ==
    {"a", "b", "c", "d", "e", "f", "g", "h", "i", "j", "k", "l", "m",
     "n", "o", "p", "q", "r", "s", "t", "u", "v", "w", "x", "y", "z",
     "A", "B", "C", "D", "E", "F", "G", "H", "I", "J", "K", "L", "M",
     "N", "O", "P", "Q", "R", "S", "T", "U", "V", "W", "X", "Y", "Z"}

is_numeric(c) == c \in Digits
is_ascii_digit(c) == c \in Digits
\* a letter whose UTF-8 encoding takes two bytes
TwoByteLetter == "é"

\* char::len_utf8
len_utf8(c) == IF c = TwoByteLetter THEN 2 ELSE 1

is_alphanumeric(c) == c \in Digits \cup Letters \cup {TwoByteLetter}
is_whitespace(c) == c \in {" ", "\t", "\n", "\r", "\f"}

----------------------------------------------------------------------------
(* Spans and tokens *)

Span(s, e) == [start |-> s, end |-> e]

\* impl Add<Span> for Span
SpanAdd(a, b) == [start |-> a.start, end |-> b.end]

Token(kind, s, e) == [kind |-> kind, str |-> <<>>, span |-> Span(s, e)]

\* A lexer outcome: res is "ok" (tok is the token), "err" (tok is the
\* error, kind = the LexError variant) or "hang" (the call never returns);
\* chars/index are the cursor the call leaves behind.
Ok(kind, s, e, c, i) == [res |-> "ok", tok |-> Token(kind, s, e), chars |-> c, index |-> i]
OkStr(buf, s, e, c, i) ==
    [res |-> "ok", tok |-> [kind |-> "Str", str |-> buf, span |-> Span(s, e)],
     chars |-> c, index |-> i]
\* Lexer::make_error
make_error(kind, s, e, c, i) == [res |-> "err", tok |-> Token(kind, s, e), chars |-> c, index |-> i]
Hang(c, i) == [res |-> "hang", tok |-> Token("Hang", i, i), chars |-> c, index |-> i]

----------------------------------------------------------------------------
(* Lexer: character cursor *)

\* Lexer::peek_char
peek_char(src, c) == IF c < Len(src) THEN src[c + 1] ELSE None

\* Lexer::peek_next_char
peek_next_char(src, c) == IF c + 1 < Len(src) THEN src[c + 2] ELSE None

\* Lexer::advance, the iterator half: Chars::next stays put at the end
adv(src, c) == IF c < Len(src) THEN c + 1 ELSE c

\* the byte offset in src of its character number c (counted from 0)
RECURSIVE ByteOffset(_, _)
ByteOffset(src, c) == IF c = 0 THEN 0 ELSE ByteOffset(src, c - 1) + len_utf8(src[c])

\* str::is_char_boundary
is_char_boundary(src, b) == \E c \in 0..Len(src) : ByteOffset(src, c) = b

\* the number of characters of src before the byte offset b
CharsBefore(src, b) == CHOOSE c \in 0..Len(src) : ByteOffset(src, c) = b

\* &source[start..end], a range of bytes; the slice panics (and get() gives
\* None) when out of range or not on character boundaries
InRange(src, s, e) == s <= e /\ is_char_boundary(src, s) /\ is_char_boundary(src, e)
Slice(src, s, e) == SubSeq(src, CharsBefore(src, s) + 1, CharsBefore(src, e))

----------------------------------------------------------------------------
(* Lexer: tokens *)

\* lex_number's ending with the dot count compared one too high
number_end_two_dots(start, c, i, dot_count) ==
    IF dot_count > 2 THEN make_error("InvalidNumber", start, i, c, i)
    ELSE IF dot_count # 0 THEN Ok("Float", start - 1, i, c, i)
    ELSE Ok("Int", start - 1, i, c, i)

\* Lexer::lex_number, after the loop (lines 81-94)
number_end(start, c, i, dot_count) ==
    IF dot_count > 1 THEN make_error("InvalidNumber", start, i, c, i)
    ELSE IF dot_count # 0 THEN Ok("Float", start - 1, i, c, i)
    ELSE Ok("Int", start - 1, i, c, i)

\* Lexer::lex_number, the while loop (lines 65-80); current is the loop variable
RECURSIVE number_loop(_, _, _, _, _, _)
number_loop(src, start, c, i, current, dot_count) ==
    IF current = None THEN number_end(start, c, i, dot_count)
    ELSE IF ~is_numeric(current) /\ current # "." /\ current # "_"
    THEN number_end(start, c, i, dot_count)
    ELSE IF current = "." /\ peek_next_char(src, c) = None
    THEN make_error("InvalidNumber", start, i, c, i)
    ELSE IF current = "." /\ ~is_ascii_digit(peek_next_char(src, c))
    THEN number_end(start, c, i, dot_count)
    ELSE number_loop(src, start, adv(src, c), i + 1, peek_char(src, adv(src, c)),
                     IF current = "." THEN dot_count + 1 ELSE dot_count)

\* Lexer::lex_number; a leading '-' is consumed and becomes the loop's current
lex_number(src, c, i) ==
    IF peek_char(src, c) = "-"
    THEN number_loop(src, i, adv(src, c), i + 1, "-", 0)
    ELSE number_loop(src, i, c, i, peek_char(src, c), 0)

\* tokens::map_keyword
map_keyword(text) ==
    IF text = <<"t", "r", "u", "e">> THEN "True"
    ELSE IF text = <<"f", "a", "l", "s", "e">> THEN "False"
    ELSE IF text = <<"n", "u", "l", "l">> THEN "Null"
    ELSE "Word"

\* Lexer::lex_identifier, the while loop: the cursor after the identifier
RECURSIVE ident_loop(_, _, _)
ident_loop(src, c, i) ==
    IF peek_char(src, c) # None
       /\ (is_alphanumeric(peek_char(src, c)) \/ peek_char(src, c) = "_")
    THEN ident_loop(src, adv(src, c), i + 1)
    ELSE [chars |-> c, index |-> i]

\* Lexer::lex_identifier, lines 107-112; after is the cursor the loop left
ident_end(src, start, after) ==
    IF ~InRange(src, start, after.index)
    THEN make_error("InvalidIdent", start, after.index, after.chars, after.index)
    ELSE Ok(map_keyword(Slice(src, start, after.index)), start, after.index,
            after.chars, after.index)

\* Lexer::lex_identifier
lex_identifier(src, c, i) == ident_end(src, i - 1, ident_loop(src, c, i))

\* the escape table of Lexer::lex_string (lines 134-143)
IsEscape(ch) == ch \in {"n", "t", "\\", "0", "\"", "'"}
escape_map(ch) ==
    IF ch = "n" THEN "\n" ELSE IF ch = "t" THEN "\t" ELSE IF ch = "0" THEN Nul ELSE ch

\* lex_string's loop with either quote character closing the literal
RECURSIVE string_loop_any_quote(_, _, _, _, _, _, _, _)
string_loop_any_quote(src, quote, start, c, i, last, escaped, buffer) ==
    IF last = None
    THEN [make_error("UnterminatedStr", start, start + 1, c, i) EXCEPT !.tok.str = <<quote>>]
    ELSE IF ~escaped /\ last = "\\"
    THEN string_loop_any_quote(src, quote, start, adv(src, c), i + 1, peek_char(src, c), TRUE, buffer)
    ELSE IF ~escaped /\ last \in {"\"", "'"}
    THEN OkStr(buffer, start - 1, i, c, i)
    ELSE IF ~escaped
    THEN string_loop_any_quote(src, quote, start, adv(src, c), i + (len_utf8(last) - 1) + 1,
                     peek_char(src, c), FALSE, Append(buffer, last))
    ELSE IF ~IsEscape(last) THEN make_error("InvalidEscape", start, i, c, i)
    ELSE string_loop_any_quote(src, quote, start, adv(src, c), i + 1, peek_char(src, c), FALSE,
                     Append(buffer, escape_map(last)))

\* Lexer::lex_string, the loop (lines 119-150); last is the character the
\* preceding advance() returned, the cursor is already past it
RECURSIVE string_loop(_, _, _, _, _, _, _, _)
string_loop(src, quote, start, c, i, last, escaped, buffer) ==
    IF last = None
    THEN [make_error("UnterminatedStr", start, start + 1, c, i) EXCEPT !.tok.str = <<quote>>]
    ELSE IF ~escaped /\ last = "\\"
    THEN string_loop(src, quote, start, adv(src, c), i + 1, peek_char(src, c), TRUE, buffer)
    ELSE IF ~escaped /\ last = quote
    THEN OkStr(buffer, start - 1, i, c, i)
    ELSE IF ~escaped
    THEN string_loop(src, quote, start, adv(src, c), i + (len_utf8(last) - 1) + 1,
                     peek_char(src, c), FALSE, Append(buffer, last))
    ELSE IF ~IsEscape(last) THEN make_error("InvalidEscape", start, i, c, i)
    ELSE string_loop(src, quote, start, adv(src, c), i + 1, peek_char(src, c), FALSE,
                     Append(buffer, escape_map(last)))

\* Lexer::lex_string
lex_string(src, quote, c, i) ==
    string_loop(src, quote, i, adv(src, c), i + 1, peek_char(src, c), FALSE, <<>>)

\* Lexer::make_eof_token, called after advance() has bumped index
make_eof_token(c, i) == Ok("Eof", i - 1, i, c, i)

\* Lexer::multi_char_token: the span is built before push_advance advances
multi_char_token(src, expected, short_token, long_token, range_start, c, i) ==
    IF peek_char(src, c) = expected
    THEN Ok(long_token, range_start, i, adv(src, c), i + 1)
    ELSE Ok(short_token, range_start, range_start + 1, c, i)

\* Lexer::ident_or_num
ident_or_num(src, expected, c, i) ==
    IF is_ascii_digit(expected) THEN lex_number(src, c, i)
    ELSE IF is_alphanumeric(expected) \/ expected = "_" THEN lex_identifier(src, c, i)
    ELSE make_error("UnexpectedChar", i - 1, i, c, i)

\* multi_comment's iteration without the nesting count of an inner "<*"
comment_step_flat(src, s) ==
    LET peeked == peek_char(src, s.chars)
        next == peek_next_char(src, s.chars)
        adv1 == [s EXCEPT !.chars = adv(src, s.chars), !.index = s.index + 1]
        adv2 == [s EXCEPT !.chars = adv(src, adv(src, s.chars)), !.index = s.index + 2]
    IN  IF peeked = "*"
        THEN IF next = None THEN adv1
             ELSE IF next # ">" THEN s
             ELSE [adv2 EXCEPT !.nest = s.nest - 1]
        ELSE IF peeked = "<"
        THEN IF next = None THEN adv1
             ELSE IF next # "*" THEN s
             ELSE adv2
        ELSE [adv1 EXCEPT !.end = s.index + 1]

\* Lexer::multi_comment, one iteration of the while loop (lines 197-231);
\* s = [chars, index, nest, end] are the loop's variables
comment_step(src, s) ==
    LET peeked == peek_char(src, s.chars)
        next == peek_next_char(src, s.chars)
        adv1 == [s EXCEPT !.chars = adv(src, s.chars), !.index = s.index + 1]
        adv2 == [s EXCEPT !.chars = adv(src, adv(src, s.chars)), !.index = s.index + 2]
    IN  IF peeked = "*"
        THEN IF next = None THEN adv1
             ELSE IF next # ">" THEN s
             ELSE [adv2 EXCEPT !.nest = s.nest - 1]
        ELSE IF peeked = "<"
        THEN IF next = None THEN adv1
             ELSE IF next # "*" THEN s
             ELSE [adv2 EXCEPT !.nest = s.nest + 1]
        ELSE [adv1 EXCEPT !.end = s.index + 1]

\* multi_comment's loop with the end of the input inside a comment made an
\* error
RECURSIVE comment_loop_strict(_, _, _)
comment_loop_strict(src, start, s) ==
    IF s.nest < 1 THEN Ok("Comment", start, s.end, s.chars, s.index)
    ELSE IF peek_char(src, s.chars) = None
    THEN make_error("UnexpectedStreamEnd", s.index, s.index, s.chars, s.index)
    ELSE IF comment_step(src, s) = s THEN Hang(s.chars, s.index)
    ELSE comment_loop_strict(src, start, comment_step(src, s))

\* Lexer::multi_comment, the while loop; an iteration that changes none of
\* the loop's variables repeats for ever
RECURSIVE comment_loop(_, _, _)
comment_loop(src, start, s) ==
    IF s.nest < 1 \/ peek_char(src, s.chars) = None
    THEN Ok("Comment", start, s.end, s.chars, s.index)
    ELSE IF comment_step(src, s) = s THEN Hang(s.chars, s.index)
    ELSE comment_loop(src, start, comment_step(src, s))

\* Lexer::consume_char
consume_char(src, expected, c, i) ==
    IF peek_char(src, c) = None THEN make_error("UnexpectedStreamEnd", i, i, c, i + 1)
    ELSE IF peek_char(src, c) # expected
    THEN make_error("UnexpectedChar", i, i + 1, adv(src, c), i + 1)
    ELSE Ok("Char", i, i + 1, adv(src, c), i + 1)

\* Lexer::multi_comment, lines 193-233; star is what consume_char('*') returned
comment_body(src, star) ==
    IF star.res # "ok" THEN star
    ELSE comment_loop(src, star.index,
             [chars |-> star.chars, index |-> star.index, nest |-> 1, end |-> star.index])

\* Lexer::multi_comment
multi_comment(src, c, i) == comment_body(src, consume_char(src, "*", c, i))

\* lex_end_token with the End token's span left as the span of the '<'
lex_end_token_short(src, range, c, i) ==
    IF peek_next_char(src, c) = None THEN Ok("Lesser", range.start, range.end, c, i)
    ELSE IF peek_next_char(src, c) # ">" THEN Ok("Lesser", range.start, range.end, c, i)
    ELSE Ok("End", range.start, range.end, adv(src, adv(src, c)), i + 2)

\* Lexer::lex_end_token; range is the span of the '<'
lex_end_token(src, range, c, i) ==
    IF peek_next_char(src, c) = None THEN Ok("Lesser", range.start, range.end, c, i)
    ELSE IF peek_next_char(src, c) # ">" THEN Ok("Lesser", range.start, range.end, c, i)
    ELSE Ok("End", range.start, i + 2, adv(src, adv(src, c)), i + 2)

\* Lexer::lex_lesser_token
lex_lesser_token(src, range, c, i) ==
    IF peek_char(src, c) = None THEN Ok("Lesser", range.start, range.end, c, i)
    ELSE IF peek_char(src, c) = "*" THEN multi_comment(src, c, i)
    ELSE IF peek_char(src, c) = "/" THEN lex_end_token(src, range, c, i)
    ELSE Ok("Lesser", range.start, range.end, c, i)

\* the single-character arms of Lexer::token_from_char (lines 251-285)
PunctKind(ch) ==
    CASE ch = "." -> "Dot"      [] ch = "," -> "Comma"
      [] ch = "{" -> "LBrace"   [] ch = "}" -> "RBrace"
      [] ch = "(" -> "LParen"   [] ch = ")" -> "RParen"
      [] ch = "[" -> "LBracket" [] ch = "]" -> "RBracket"
      [] ch = "%" -> "Percent"  [] ch = ":" -> "Colon"
      [] ch = "$" -> "Dollar"   [] ch = "@" -> "At"
      [] ch = "|" -> "Pipe"     [] ch = "&" -> "Ampersand"
      [] ch = "?" -> "Question" [] ch = "!" -> "Bang"
      [] ch = "\n" -> "NewLine" [] ch = " " -> "Space"
      [] ch = "\t" -> "Space"   [] ch = "*" -> "Star"
      [] ch = ">" -> "Greater"  [] ch = "/" -> "Slash"
      [] ch = "=" -> "Equal"    [] OTHER -> "none"

\* Lexer::token_from_char; the cursor (c, i) is already past ch
token_from_char(src, ch, start, c, i) ==
    IF PunctKind(ch) # "none" THEN Ok(PunctKind(ch), start, start + 1, c, i)
    ELSE IF ch = "\"" \/ ch = "'" THEN lex_string(src, ch, c, i)
    ELSE IF ch = "\r" THEN multi_char_token(src, "\n", "Space", "NewLine", start, c, i)
    ELSE IF ch = "-"
    THEN IF peek_char(src, c) = None THEN Ok("Minus", start, start + 1, c, i)
         ELSE IF is_alphanumeric(peek_char(src, c)) THEN lex_number(src, c, i)
         ELSE Ok("Minus", start, start + 1, c, i)
    ELSE IF ch = "<" THEN lex_lesser_token(src, Span(start, start + 1), c, i)
    ELSE ident_or_num(src, ch, c, i)

\* Lexer::next
next(src, c, i) ==
    IF peek_char(src, c) = None THEN make_eof_token(c, i + 1)
    ELSE token_from_char(src, peek_char(src, c), i, adv(src, c), i + 1)

\* peek/peek_next with the iterator put back but not the index
restore_chars_only(r, old_chars, old_index) ==
    IF r.res = "ok" THEN [r EXCEPT !.chars = old_chars] ELSE r

\* `let token = self.next()?; self.chars = old_chars; self.index = old_index`:
\* the cursor is restored only when next() returned Ok
restore(r, old_chars, old_index) ==
    IF r.res = "ok" THEN [r EXCEPT !.chars = old_chars, !.index = old_index] ELSE r

\* Lexer::peek
peek(src, c, i) == restore(next(src, c, i), c, i)

\* peek_next handing back the first upcoming token, as peek does
peek_second_first(src, first, old_chars, old_index) == restore(first, old_chars, old_index)

\* Lexer::peek_next, from line 318; first is what the first next() returned
peek_second(src, first, old_chars, old_index) ==
    IF first.res # "ok" THEN first
    ELSE restore(next(src, first.chars, first.index), old_chars, old_index)

\* Lexer::peek_next
peek_next(src, c, i) == peek_second(src, next(src, c, i), c, i)

----------------------------------------------------------------------------
(* Parser: token helpers.  Each returns a record shaped like a lexer       *)
(* outcome: res, tok (the token, or the error), and the cursor.            *)

\* TokenEq::is_significant
is_significant(t) == t.kind \notin {"Comment", "Space", "NewLine"}

\* ParseError::X.to_spanned(span), boxed by err()
PErr(kind, span, c, i) ==
    [res |-> "err", tok |-> [kind |-> kind, str |-> <<>>, span |-> span],
     chars |-> c, index |-> i]

\* a panic: the slice &input[a..b] out of range, unwrap() on Err, todo!()
Panic(why, span, c, i) ==
    [res |-> "panic", tok |-> [kind |-> why, str |-> <<>>, span |-> span],
     chars |-> c, index |-> i]

\* Parser::skip_unsignificant: n is what next() returns at the cursor (c, i);
\* a significant token (Eof is one) is left unread.  tok is the token the
\* cursor is left at
RECURSIVE skip_unsignificant(_, _, _)
skip_step(src, c, i, n) ==
    IF n.res # "ok" THEN n
    ELSE IF is_significant(n.tok) THEN restore(n, c, i)
    ELSE skip_unsignificant(src, n.chars, n.index)
skip_unsignificant(src, c, i) == skip_step(src, c, i, next(src, c, i))

\* Parser::peek_some, lines 73-76; p is what peek() returned
some_or_end(p) ==
    IF p.res # "ok" THEN p
    ELSE IF p.tok.kind = "Eof" THEN PErr("UnexpectedStreamEnd", p.tok.span, p.chars, p.index)
    ELSE p

\* Parser::peek_some
peek_some(src, c, i) == some_or_end(peek(src, c, i))

\* Parser::check_valid; p is what peek_some() returned
check_valid(expected, p) ==
    IF p.res # "ok" THEN p
    ELSE IF p.tok.kind # expected
    THEN [res |-> "err",
          tok |-> [kind |-> "InvalidToken", expected |-> expected,
                   got |-> p.tok.kind, str |-> <<>>, span |-> p.tok.span],
          chars |-> p.chars, index |-> p.index]
    ELSE p

\* Parser::expect
expect(src, expected, c, i) == check_valid(expected, peek_some(src, c, i))

\* Parser::consume, lines 130-131; t is what expect() returned
take(src, t) ==
    IF t.res # "ok" THEN t ELSE [next(src, t.chars, t.index) EXCEPT !.tok = t.tok]

\* Parser::consume
consume(src, expected, c, i) == take(src, expect(src, expected, c, i))

\* Parser::consume_word; the word's text is Parser::text of tok.span
consume_word(src, c, i) == consume(src, "Word", c, i)

\* Parser::text
text(src, t) == Slice(src, t.span.start, t.span.end)
TextOk(src, t) == InRange(src, t.span.start, t.span.end)

\* str::trim
RECURSIVE trim_start(_)
trim_start(s) ==
    IF s # <<>> /\ is_whitespace(Head(s)) THEN trim_start(Tail(s)) ELSE s
RECURSIVE trim_end(_)
trim_end(s) ==
    IF s # <<>> /\ is_whitespace(s[Len(s)]) THEN trim_end(SubSeq(s, 1, Len(s) - 1)) ELSE s
trim(s) == trim_end(trim_start(s))

----------------------------------------------------------------------------
(* AST *)

NoSpan == <<>>              \* Option::None
Some(x) == <<x>>            \* Option::Some(x)

TextNode(t, span) == [node |-> "Text", text |-> t, span |-> span]
CommentNode(t, span) == [node |-> "Comment", text |-> t, span |-> span]
ElementNode(name, props, children, start_tag_span, end_tag_span, span) ==
    [node |-> "Element", name |-> name, props |-> props, children |-> children,
     start_tag_span |-> start_tag_span, end_tag_span |-> end_tag_span, span |-> span]

\* Value::X.to_spanned(span)
Value(type, v, span) == [type |-> type, v |-> v, span |-> span]

\* an insert that keeps the entry a key already has
Insert_keep_first(m, k, v) ==
    IF k \in DOMAIN m THEN m ELSE [x \in DOMAIN m \cup {k} |-> IF x = k THEN v ELSE m[x]]

\* HashMap::new and HashMap::insert
EmptyMap == <<>>
Insert(m, k, v) == [x \in DOMAIN m \cup {k} |-> IF x = k THEN v ELSE m[x]]

\* Parser::new: str_vec!(pre, raw, script, style)
raw_tags ==
    {<<"p", "r", "e">>, <<"r", "a", "w">>,
     <<"s", "c", "r", "i", "p", "t">>, <<"s", "t", "y", "l", "e">>}

----------------------------------------------------------------------------
(* Parser: values *)

\* the literal's text with its underscores left in
strip_underscores_kept(s) == s

\* chars().filter(|c| c != &'_')
RECURSIVE strip_underscores(_)
strip_underscores(s) ==
    IF s = <<>> THEN <<>>
    ELSE IF Head(s) = "_" THEN strip_underscores(Tail(s))
    ELSE <<Head(s)>> \o strip_underscores(Tail(s))

DigitVal(d) ==
    CASE d = "0" -> 0 [] d = "1" -> 1 [] d = "2" -> 2 [] d = "3" -> 3 [] d = "4" -> 4
      [] d = "5" -> 5 [] d = "6" -> 6 [] d = "7" -> 7 [] d = "8" -> 8 [] d = "9" -> 9

RECURSIVE DigitsValue(_)
DigitsValue(s) ==
    IF s = <<>> THEN 0 ELSE 10 * DigitsValue(SubSeq(s, 1, Len(s) - 1)) + DigitVal(s[Len(s)])

Unsigned(s) == IF s # <<>> /\ Head(s) \in {"-", "+"} THEN Tail(s) ELSE s

\* <i64 as FromStr>: an optional sign and at least one digit (the literals
\* of the model stay far below i64::MAX)
IntParses(s) == Unsigned(s) # <<>> /\ \A k \in 1..Len(Unsigned(s)) : Unsigned(s)[k] \in Digits
IntValue(s) == IF Head(s) = "-" THEN 0 - DigitsValue(Unsigned(s)) ELSE DigitsValue(Unsigned(s))

\* <f64 as FromStr> on the characters a number token can hold: an optional
\* sign, digits with at most one '.', and at least one digit
FloatParses(s) ==
    /\ \A k \in 1..Len(Unsigned(s)) : Unsigned(s)[k] \in Digits \cup {"."}
    /\ \E k \in 1..Len(Unsigned(s)) : Unsigned(s)[k] \in Digits
    /\ Cardinality({k \in 1..Len(Unsigned(s)) : Unsigned(s)[k] = "."}) <= 1

\* Parser::parse_int; the value is the integer
parse_int(src, t, c, i) ==
    IF ~TextOk(src, t) THEN Panic("slice", t.span, c, i)
    ELSE IF ~IntParses(strip_underscores(text(src, t))) THEN Panic("unwrap", t.span, c, i)
    ELSE [res |-> "ok", tok |-> Value("Int", IntValue(strip_underscores(text(src, t))), t.span),
          chars |-> c, index |-> i]

\* Parser::parse_float; the value is kept as its decimal text
parse_float(src, t, c, i) ==
    IF ~TextOk(src, t) THEN Panic("slice", t.span, c, i)
    ELSE IF ~FloatParses(strip_underscores(text(src, t))) THEN Panic("unwrap", t.span, c, i)
    ELSE [res |-> "ok", tok |-> Value("Float", strip_underscores(text(src, t)), t.span),
          chars |-> c, index |-> i]

\* Parser::parse_value
parse_value(src, t, c, i) ==
    LET val(type, v) == [res |-> "ok", tok |-> Value(type, v, t.span), chars |-> c, index |-> i]
    IN  CASE t.kind = "False" -> val("Bool", FALSE)
          [] t.kind = "True" -> val("Bool", TRUE)
          [] t.kind = "Null" -> val("Null", <<>>)
          [] t.kind = "Float" -> parse_float(src, t, c, i)
          [] t.kind = "Int" -> parse_int(src, t, c, i)
          [] t.kind = "Str" -> val("String", t.str)
          [] OTHER -> Panic("todo", t.span, c, i)

\* Parser::parse_raw_text, the while loop: the cursor at the next '<' or the end
RECURSIVE raw_text_loop(_, _, _)
raw_text_loop(src, c, i) ==
    IF peek_char(src, c) = None \/ peek_char(src, c) = "<" THEN [chars |-> c, index |-> i]
    ELSE raw_text_loop(src, adv(src, c), i + 1)

\* Parser::parse_raw_text, lines 149-153; stop is the cursor the loop left,
\* the buffer holds the characters advanced over
raw_text_node(src, c, i, stop) ==
    [res |-> "ok",
     tok |-> TextNode(SubSeq(src, c + 1, stop.chars), Span(i, stop.index)),
     chars |-> stop.chars, index |-> stop.index]

\* Parser::parse_raw_text
parse_raw_text(src, c, i) == raw_text_node(src, c, i, raw_text_loop(src, c, i))

----------------------------------------------------------------------------
(* Parser: the call stack.  A frame holds the locals of one call of        *)
(* parse_content, parse_element, parse_props or parse_text.                *)

ContentFrame(raw) == [fn |-> "parse_content", raw |-> raw, children |-> <<>>]
ElementFrame ==
    [fn |-> "parse_element", pc |-> "open", start |-> Span(0, 0), tag_name |-> <<>>,
     parse_raw |-> FALSE, props |-> EmptyMap, children |-> <<>>,
     start_tag_span |-> Span(0, 0)]
PropsFrame == [fn |-> "parse_props", props |-> EmptyMap]
TextFrame(span) ==
    [fn |-> "parse_text", buffer |-> <<>>, start_span |-> span, end_span |-> span]

Top == stack[Len(stack)]
Callers == SubSeq(stack, 1, Len(stack) - 1)

\* The caller's frame once the call it made has returned v:
\* parse_content lines 217-223 (an empty Text is dropped), parse_element
\* line 252 (props) and line 269 (children)
Resume(f, v) ==
    IF f.fn = "parse_content"
    THEN IF v.node = "Text" /\ v.text = <<>> THEN f
         ELSE [f EXCEPT !.children = Append(@, v)]
    ELSE IF f.pc = "props" THEN [f EXCEPT !.props = v, !.pc = "tag"]
    ELSE [f EXCEPT !.children = v, !.pc = "close"]

\* `return Ok(v)` of the innermost call; the outermost is Parser::parse
Return(v, c, i) ==
    /\ chars' = c
    /\ index' = i
    /\ IF Callers = <<>>
       THEN stack' = <<>> /\ status' = "ok" /\ result' = v
       ELSE /\ stack' = Append(SubSeq(Callers, 1, Len(Callers) - 1),
                               Resume(Callers[Len(Callers)], v))
            /\ UNCHANGED <<status, result>>
    /\ UNCHANGED <<input, op, tok>>

\* `?` on an Err unwinds every call, a panic aborts, a hang stays where it is
Abort(r) ==
    /\ chars' = r.chars
    /\ index' = r.index
    /\ status' = r.res
    /\ result' = r.tok
    /\ stack' = IF r.res = "hang" THEN stack ELSE <<>>
    /\ UNCHANGED <<input, op, tok>>

\* the innermost call goes on with frame f
Stay(f, c, i) ==
    /\ chars' = c
    /\ index' = i
    /\ stack' = Append(Callers, f)
    /\ UNCHANGED <<input, op, tok, status, result>>

\* the innermost call, now frame f, calls g
Call(f, g, c, i) ==
    /\ chars' = c
    /\ index' = i
    /\ stack' = Append(Append(Callers, f), g)
    /\ UNCHANGED <<input, op, tok, status, result>>

\* Parser::parse_content, one iteration of its loop, with the dispatch of
\* Parser::parse_expr
ParseContentStep ==
    /\ status = "parsing"
    /\ Top.fn = "parse_content"
    /\ \E p \in {peek(input, chars, index)} :
         IF p.res # "ok" THEN Abort(p)
         ELSE IF p.tok.kind \in {"Eof", "End", "LCloser"}
         THEN Return(Top.children, chars, index)
         ELSE IF p.tok.kind = "Lesser" THEN Call(Top, ElementFrame, chars, index)
         ELSE IF p.tok.kind = "Comment"
         THEN IF ~TextOk(input, p.tok) THEN Abort(Panic("slice", p.tok.span, chars, index))
              ELSE \E n \in {next(input, chars, index)} :
                     Stay(Resume(Top, CommentNode(text(input, p.tok), p.tok.span)),
                          n.chars, n.index)
         ELSE IF Top.raw
         THEN \E r \in {parse_raw_text(input, chars, index)} :
                Stay(Resume(Top, r.tok), r.chars, r.index)
         ELSE Call(Top, TextFrame(p.tok.span), chars, index)

\* Parser::parse_text, lines 177-178
TextDone(buffer, end_span, c, i) ==
    Return(TextNode(trim(buffer), SpanAdd(Top.start_span, end_span)), c, i)

\* Parser::parse_text, one iteration of its loop (lines 159-176); a Comment
\* token is looked at again without being consumed
ParseTextStep ==
    /\ status = "parsing"
    /\ Top.fn = "parse_text"
    /\ \E p \in {peek(input, chars, index)} :
         IF p.res # "ok" THEN Abort(p)
         ELSE IF p.tok.kind = "Eof" THEN TextDone(Top.buffer, Top.end_span, chars, index)
         ELSE IF p.tok.kind = "Comment" THEN Abort(Hang(chars, index))
         ELSE IF ~TextOk(input, p.tok) THEN Abort(Panic("slice", p.tok.span, chars, index))
         ELSE \E advanced \in {next(input, chars, index)} :
              \E p2 \in {peek(input, advanced.chars, advanced.index)} :
                IF p2.res # "ok" THEN Abort(p2)
                ELSE IF p2.tok.kind \in {"Lesser", "End", "LCloser"}
                THEN TextDone(Top.buffer \o text(input, p.tok), advanced.tok.span,
                              advanced.chars, advanced.index)
                ELSE Stay([Top EXCEPT !.buffer = @ \o text(input, p.tok),
                                      !.end_span = advanced.tok.span],
                          advanced.chars, advanced.index)

\* Element { .. } of a self-closing tag (lines 243-250 and 255-263)
SelfClosed(tag_name, props, start, end) ==
    ElementNode(tag_name, props, <<>>, SpanAdd(start, end), NoSpan, SpanAdd(start, end))

\* Parser::parse_element, lines 228-252: up to the call of parse_props
ParseElementOpen ==
    /\ status = "parsing"
    /\ Top.fn = "parse_element"
    /\ Top.pc = "open"
    /\ \E pn \in {peek_next(input, chars, index)} :
         IF pn.res # "ok" THEN Abort(pn)
         ELSE \E start \in {next(input, chars, index)} :
           IF pn.tok.kind \in {"Eof", "Greater"}
           THEN Return(TextNode(text(input, start.tok), start.tok.span),
                       start.chars, start.index)
           ELSE \E w \in {consume_word(input, start.chars, start.index)} :
             IF w.res # "ok" THEN Abort(w)
             ELSE \E sk \in {skip_unsignificant(input, w.chars, w.index)} :
               IF sk.res # "ok" THEN Abort(sk)
               ELSE IF sk.tok.kind = "RCloser"
               THEN \E end \in {next(input, sk.chars, sk.index)} :
                      Return(SelfClosed(text(input, w.tok), EmptyMap,
                                        start.tok.span, end.tok.span),
                             end.chars, end.index)
               ELSE Call([Top EXCEPT !.pc = "props", !.start = start.tok.span,
                                     !.tag_name = text(input, w.tok),
                                     !.parse_raw = (text(input, w.tok) \in raw_tags)],
                         PropsFrame, sk.chars, sk.index)

\* Parser::parse_props, lines 201-206: the property's `=` is the next token
PropValue(prop_name, sign) ==
    \E eq \in {next(input, sign.chars, sign.index)} :
    \E value_token \in {skip_unsignificant(input, eq.chars, eq.index)} :
      IF value_token.res # "ok" THEN Abort(value_token)
      ELSE \E value \in {parse_value(input, value_token.tok,
                                     value_token.chars, value_token.index)} :
        IF value.res # "ok" THEN Abort(value)
        ELSE \E after \in {next(input, value_token.chars, value_token.index)} :
               Stay([Top EXCEPT !.props = Insert(@, prop_name, value.tok)],
                    after.chars, after.index)

\* Parser::parse_props, one iteration of its loop
ParsePropsStep ==
    /\ status = "parsing"
    /\ Top.fn = "parse_props"
    /\ \E p \in {peek(input, chars, index)} :
         IF p.res # "ok" THEN Abort(p)
         ELSE IF p.tok.kind = "Eof" THEN Return(Top.props, chars, index)
         ELSE \E token \in {skip_unsignificant(input, chars, index)} :
           IF token.res # "ok" THEN Abort(token)
           ELSE IF token.tok.kind \in {"RCloser", "Greater"}
           THEN Return(Top.props, token.chars, token.index)
           ELSE \E w \in {consume_word(input, token.chars, token.index)} :
             IF w.res # "ok" THEN Abort(w)
             ELSE \E sign \in {skip_unsignificant(input, w.chars, w.index)} :
               IF sign.res # "ok" THEN Abort(sign)
               ELSE IF sign.tok.kind # "Equal"
               THEN Stay([Top EXCEPT !.props =
                              Insert(@, text(input, w.tok),
                                     Value("Bool", TRUE, sign.tok.span))],
                         sign.chars, sign.index)
               ELSE PropValue(text(input, w.tok), sign)

\* Parser::parse_element, lines 253-269: from the return of parse_props to
\* the call of parse_content
ParseElementTag ==
    /\ status = "parsing"
    /\ Top.fn = "parse_element"
    /\ Top.pc = "tag"
    /\ \E p \in {peek(input, chars, index)} :
         IF p.res # "ok" THEN Abort(p)
         ELSE \E token \in {next(input, chars, index)} :
           IF p.tok.kind = "RCloser"
           THEN Return(SelfClosed(Top.tag_name, Top.props, Top.start, p.tok.span),
                       token.chars, token.index)
           ELSE Call([Top EXCEPT !.pc = "content",
                                 !.start_tag_span = SpanAdd(Top.start, token.tok.span)],
                     ContentFrame(Top.parse_raw), token.chars, token.index)

\* the element built with no end_tag_span
Closed_without_end(end_start, c, i) ==
    Return(ElementNode(Top.tag_name, Top.props, Top.children, Top.start_tag_span,
                       NoSpan, SpanAdd(Top.start, end_start.tok.span)),
           c, i)

\* Element { .. } of lines 285-293
Closed(end_start, c, i) ==
    Return(ElementNode(Top.tag_name, Top.props, Top.children, Top.start_tag_span,
                       Some(end_start.tok.span), SpanAdd(Top.start, end_start.tok.span)),
           c, i)

\* ParseError::UnmatchedTag of lines 278-282
UnmatchedTag(end_start, end_tagname, end) ==
    [res |-> "err",
     tok |-> [kind |-> "UnmatchedTag",
              start_tag |-> [item |-> Top.tag_name, span |-> Top.start_tag_span],
              end_tag |-> [item |-> end_tagname,
                           span |-> SpanAdd(end_start.tok.span, end.tok.span)],
              str |-> <<>>,
              span |-> SpanAdd(Top.start, end.tok.span)],
     chars |-> end.chars, index |-> end.index]

\* Parser::parse_element, lines 272-284: the close tag after an LCloser
CloseTagName(end_start) ==
    \E sk \in {skip_unsignificant(input, end_start.chars, end_start.index)} :
      IF sk.res # "ok" THEN Abort(sk)
      ELSE \E w \in {consume_word(input, sk.chars, sk.index)} :
        IF w.res # "ok" THEN Abort(w)
        ELSE \E sk2 \in {skip_unsignificant(input, w.chars, w.index)} :
          IF sk2.res # "ok" THEN Abort(sk2)
          ELSE \E end \in {consume(input, "Greater", sk2.chars, sk2.index)} :
            IF end.res # "ok" THEN Abort(end)
            ELSE IF text(input, w.tok) # Top.tag_name
            THEN Abort(UnmatchedTag(end_start, text(input, w.tok), end))
            ELSE Closed(end_start, end.chars, end.index)

\* Parser::parse_element, lines 270-293: from the return of parse_content
ParseElementClose ==
    /\ status = "parsing"
    /\ Top.fn = "parse_element"
    /\ Top.pc = "close"
    /\ \E end_start \in {next(input, chars, index)} :
         IF end_start.res # "ok" THEN Abort(end_start)
         ELSE IF end_start.tok.kind = "LCloser" THEN CloseTagName(end_start)
         ELSE Closed(end_start, end_start.chars, end_start.index)

----------------------------------------------------------------------------
(* Inputs *)

MaxLen == 3          \* longest input of the exhaustive family
MaxDepth == 2        \* deepest nesting of the tag families
MaxProps == 2        \* most properties in a start tag of the property family
MaxNumLen == 4       \* longest input of the number family
MaxEofCalls == 2     \* calls of next() after the end of input
MaxStrLen == 4       \* longest input of the string literal family
MaxOffset == 9       \* largest start or end of the spans whose length is taken
UsizeBits == 8       \* width usize is modelled with

\* every string over alphabet of length at most n
Strings(alphabet, n) == UNION {[1..k -> alphabet] : k \in 0..n}

\* the inputs the specification's test list names (spec section 8)
SelfClosingImg == <<"<", "i", "m", "g", "/", ">">>
MatchedPair == <<"<", "a", ">", "<", "/", "a", ">">>
MismatchedPair == <<"<", "a", ">", "<", "/", "b", ">">>
RawScript == <<"<", "s", "c", "r", "i", "p", "t", ">", "1", " ", "<", " ", "2", "<", "/", "s", "c", "r", "i", "p", "t", ">">>
HrefDisabled == <<"<", "a", " ", "h", "r", "e", "f", "=", "\"", "x", "\"", " ", "d", "i", "s", "a", "b", "l", "e", "d", ">">>
NestedComment == <<"<", "*", " ", "a", " ", "<", "*", " ", "b", " ", "*", ">", " ", "c", " ", "*", ">">>
StarInComment == <<"<", "*", " ", "a", " ", "*", " ", "b", " ", "*", ">">>
TextThenComment == <<"a", "<", "*", " ", "c", " ", "*", ">", "b">>
FragmentClosed == <<"<", "a", ">", "<", "b", ">", "x", "<", "/", ">", "<", "/", ">">>

Examples ==
    {SelfClosingImg, MatchedPair, MismatchedPair, RawScript, HrefDisabled,
     NestedComment, StarInComment, TextThenComment, FragmentClosed}

MarkupChars == {"<", ">", "/", "a", " ", "*", "=", "1", "#"}
NumChars == {"1", "2", ".", "_", " "}

\* tag names of the families; "A" differs from "a" by case only
Names == {<<"a">>, <<"b">>, <<"A">>}

OpenTag(n) == <<"<">> \o n \o <<">">>
CloseTag(n) == <<"<", "/">> \o n \o <<">">>

\* well-formed documents: every open tag <x> has its close tag </x>
RECURSIVE WellFormed(_)
WellFormed(d) ==
    IF d = 0 THEN {<<>>, <<"x">>}
    ELSE WellFormed(d - 1)
         \cup {OpenTag(n) \o body \o CloseTag(n) : n \in Names, body \in WellFormed(d - 1)}

\* an element with children whose close tag names another element
Mismatched(d) ==
    UNION {{OpenTag(n) \o body \o CloseTag(m) :
                m \in Names \ {n}, body \in WellFormed(d - 1)} : n \in Names}

\* what may stand between the tag name and "/>" in a self-closing tag
SelfClosingProps == {<<>>, <<" ">>, <<" ", "b">>, <<" ", "b", "=", "1">>}
SelfClosingNames == Names \cup {<<"i", "m", "g">>}
SelfClosingTag(n, p) == <<"<">> \o n \o p \o <<"/", ">">>
SelfClosing == {SelfClosingTag(n, p) : n \in SelfClosingNames, p \in SelfClosingProps}

\* raw-tag elements whose content holds a bare '<'
RawBodies == {<<"1", " ", "<", " ", "2">>, <<"a", "<", "1">>, <<"<", " ">>}
RawNames == {<<"s", "c", "r", "i", "p", "t">>, <<"p", "r", "e">>}
RawElement(n, body) == OpenTag(n) \o body \o CloseTag(n)
RawElements == {RawElement(n, body) : n \in RawNames, body \in RawBodies}

\* properties as written in a start tag: a space, the name, and rest, which
\* is empty or blank for a bare name and else holds `=` and the literal lit;
\* type and v are the value the literal denotes
PropItem(name, rest, lit, type, v) ==
    [name |-> name, rest |-> rest, lit |-> lit, type |-> type, v |-> v]
PropItems ==
    {PropItem(<<"h", "r", "e", "f">>, <<"=", "\"", "x", "\"">>, <<"\"", "x", "\"">>, "String", <<"x">>),
     PropItem(<<"d", "i", "s", "a", "b", "l", "e", "d">>, <<>>, <<>>, "Bool", TRUE),
     PropItem(<<"b">>, <<" ">>, <<>>, "Bool", TRUE),
     PropItem(<<"n">>, <<"=", "1", "_", "0">>, <<"1", "_", "0">>, "Int", 10),
     PropItem(<<"n">>, <<"=", "2">>, <<"2">>, "Int", 2),
     PropItem(<<"f">>, <<" ", "=", " ", "2", ".", "5">>, <<"2", ".", "5">>, "Float", <<"2", ".", "5">>),
     PropItem(<<"t">>, <<"=", "t", "r", "u", "e">>, <<"t", "r", "u", "e">>, "Bool", TRUE),
     PropItem(<<"o">>, <<"=", "f", "a", "l", "s", "e">>, <<"f", "a", "l", "s", "e">>, "Bool", FALSE),
     PropItem(<<"c">>, <<"<", "*", "*", ">">>, <<>>, "Bool", TRUE),
     PropItem(<<"z">>, <<"=", " ", "n", "u", "l", "l">>, <<"n", "u", "l", "l">>, "Null", <<>>)}
PropSeqs == Strings(PropItems, MaxProps)

ItemText(it) == <<" ">> \o it.name \o it.rest
RECURSIVE ItemsText(_)
ItemsText(items) ==
    IF items = <<>> THEN <<>> ELSE ItemText(Head(items)) \o ItemsText(Tail(items))
PropsTag(items) == <<"<", "a">> \o ItemsText(items) \o <<">">>
PropsTags == {PropsTag(items) : items \in PropSeqs}

\* start tags whose property b has, after its `=`, no literal
BadValueTails == {<<">">>, <<"c", ">">>, <<" ", "/", ">">>, <<"=", "1", ">">>, <<>>}
BadValueTag(t) == <<"<", "a", " ", "b", "=">> \o t
BadValueTags == {BadValueTag(t) : t \in BadValueTails}

\* a run of text directly followed by a comment
TextComments ==
    {TextThenComment, <<"a", "<", "*", "*", ">">>, <<"a", " ", "<", "*", " ", "*", ">">>}

\* raw-tag elements closed by "</>" whose content holds no '<'
PlainBodies ==
    {<<"#">>, <<";">>, <<"+">>, <<"\"">>, <<"a", "#">>, <<" ", "a", " ">>, <<"a", " ", "b">>}
PlainRawElement(n, body) == OpenTag(n) \o body \o <<"<", "/", ">">>
PlainRawElements == {PlainRawElement(n, body) : n \in RawNames, body \in PlainBodies}

\* a '<' that the end of the input or a '>' follows, inside an element
LoneLessers ==
    {<<"<", "a", ">", "<">>, <<"<", "a", ">", "<", ">", "x">>, <<"<", "p", "r", "e", ">", "<">>}

\* a "</>" at top level, no element open
StrayEnds == {<<"<", "/", ">", "a">>, <<"a", "<", "/", ">", "<", "b", ">">>}

\* elements that the end of the input leaves open, in the start tag or in
\* the content
Unclosed ==
    {<<"<", "a">>, <<"<", "a", " ", "b">>, <<"<", "a", " ", "b", "=", "1">>,
     <<"<", "a", ">", "x">>, <<"<", "a", ">", "<", "b", ">">>,
     <<"<", "a", ">", "x", "<", "b">>, <<"<", "p", "r", "e", ">", "x", " ">>}

\* elements closed by "</>", nested to depth d
EndTag == <<"<", "/", ">">>
RECURSIVE EndClosed(_)
EndClosed(d) ==
    IF d = 0 THEN {<<>>, <<"x">>}
    ELSE {OpenTag(n) \o body \o EndTag : n \in Names, body \in EndClosed(d - 1)}
EndClosedDocs == UNION {EndClosed(d) : d \in 1..MaxDepth}

ParseInputs ==
    Strings(MarkupChars, MaxLen) \cup Examples \cup WellFormed(MaxDepth)
    \cup Mismatched(MaxDepth) \cup SelfClosing \cup RawElements \cup PropsTags
    \cup BadValueTags \cup TextComments \cup PlainRawElements \cup LoneLessers
    \cup StrayEnds \cup Unclosed \cup EndClosedDocs

\* the numeric literals of spec section 8
NumberExamples == {<<"3", ".", "1", "4">>, <<"1", "_", "0", "0", "0">>, <<"1", ".", "2", ".", "3">>}

\* balanced comments, alone in the input, with nested comments at the
\* start, in the middle and at the end of the body
BalancedComments ==
    {NestedComment,
     <<"<", "*", "*", ">">>,
     <<"<", "*", "a", "*", ">">>,
     <<"<", "*", "<", "*", "a", "*", ">", "b", "*", ">">>,
     <<"<", "*", "a", "<", "*", "b", "*", ">", "*", ">">>,
     <<"<", "*", "<", "*", "a", "*", ">", "*", ">">>}

\* comments that the end of the input cuts off, alone in the input; no '*'
\* or '<' in the body outside the delimiters
UnterminatedComments ==
    {<<"<", "*">>,
     <<"<", "*", "a">>,
     <<"<", "*", " ", "a", " ">>,
     <<"<", "*", "a", "<", "*">>,
     <<"<", "*", "a", "<", "*", "b">>,
     <<"<", "*", "<", "*", "a", "*", ">">>,
     <<"<", "*", "a", "<", "*", "b", "*", ">", "c">>}

\* inputs with a two-byte letter: in identifiers and text, in a string
\* literal, in a comment
Utf8Chars == {TwoByteLetter, "a", " "}
Utf8Inputs ==
    Strings(Utf8Chars, MaxLen)
    \cup {<<"\"", TwoByteLetter, "\"">>,
          <<"\"", TwoByteLetter, "\"", "a">>,
          <<"<", "*", TwoByteLetter, "*", ">">>,
          <<"<", "*", TwoByteLetter, "*", ">", "a">>}

\* inputs with line endings "\n", "\r\n" and a lone "\r"
LineChars == {"\r", "\n", "a"}
LineInputs == Strings(LineChars, MaxLen)

\* inputs of string literals: both quotes, the backslash, a character that
\* is an escape and one that is not; literals holding a two-byte letter
StrChars == {"\"", "'", "\\", "n", "x"}
StrInputs ==
    Strings(StrChars, MaxStrLen)
    \cup {<<"'", TwoByteLetter, "\"", "'", "x">>,
          <<"\"", "\\", "0", "\\", "t", "\"">>,
          <<"\"", "\\", TwoByteLetter, "\"">>}

\* characters of signed numbers
SignChars == {"-", "1", "x", "."}

LexInputs ==
    Strings(MarkupChars, MaxLen) \cup Strings(NumChars, MaxNumLen) \cup Examples
    \cup NumberExamples \cup Strings(SignChars, MaxLen) \cup BalancedComments \cup UnterminatedComments
    \cup Utf8Inputs \cup LineInputs \cup StrInputs

----------------------------------------------------------------------------
(* Specifications *)

NoTok == [res |-> "none", tok |-> Token("None", 0, 0)]

\* Parser::parse: Parser::new, then parse_content(false)
Init ==
    /\ input \in ParseInputs
    /\ chars = 0
    /\ index = 0
    /\ op = "new"
    /\ tok = NoTok
    /\ stack = <<ContentFrame(FALSE)>>
    /\ status = "parsing"
    /\ result = <<>>

Next ==
    \/ ParseContentStep
    \/ ParseTextStep
    \/ ParseElementOpen
    \/ ParsePropsStep
    \/ ParseElementTag
    \/ ParseElementClose

Spec == Init /\ [][Next]_vars

\* Lexer::new
LexInit ==
    /\ input \in LexInputs
    /\ chars = 0
    /\ index = 0
    /\ op = "new"
    /\ tok = NoTok
    /\ stack = <<>>
    /\ status = "lexing"
    /\ result = <<>>

\* a call of a lexer operation that returned (or hangs): r is its outcome
LexCall(name, r) ==
    /\ status = "lexing"
    /\ tok.res # "hang"
    /\ index < Len(input) + MaxEofCalls
    /\ op' = name
    /\ tok' = [res |-> r.res, tok |-> r.tok]
    /\ chars' = r.chars
    /\ index' = r.index
    /\ UNCHANGED <<input, stack, status, result>>

LexNext == LexCall("next", next(input, chars, index))
LexPeek == LexCall("peek", peek(input, chars, index))
LexPeekNext == LexCall("peek_next", peek_next(input, chars, index))

\* Compiler::lex, the loop (lines 39-46): r is what lexer.next() returned,
\* buf the tokens pushed so far; an error or a hang of next() ends the call
RECURSIVE lex_loop(_, _, _)
lex_loop(src, r, buf) ==
    IF r.res # "ok" THEN [res |-> r.res, toks |-> buf, err |-> r.tok]
    ELSE IF r.tok.kind = "Eof" THEN [res |-> "ok", toks |-> buf, err |-> NoTok.tok]
    ELSE lex_loop(src, next(src, r.chars, r.index), Append(buf, r.tok))

\* Compiler::lex: all the tokens of the input before Eof, from a lexer of
\* its own
lex(src) == lex_loop(src, next(src, 0, 0), <<>>)

\* a call of Compiler::lex on the input
LexAll ==
    /\ status = "lexing"
    /\ op = "new"
    /\ op' = "lex"
    /\ result' = lex(input)
    /\ UNCHANGED <<input, chars, index, tok, stack, status>>

LexStep == LexNext \/ LexPeek \/ LexPeekNext \/ LexAll

LexSpec == LexInit /\ [][LexStep]_vars

\* a - b in usize: when a < b the subtraction panics in a build with overflow
\* checks and wraps around in a build without them
usize_sub(a, b) ==
    IF a >= b THEN {[res |-> "ok", v |-> a - b]}
    ELSE {[res |-> "panic", v |-> 0],
          [res |-> "ok", v |-> (a + 2^UsizeBits - b) % 2^UsizeBits]}

\* <Span as ariadne::Span>::len
len(span) == usize_sub(span.start, span.end)

\* Span::new with any start and end: input is the span
SpanInit ==
    /\ input \in {Span(s, e) : s \in 0..MaxOffset, e \in 0..MaxOffset}
    /\ chars = 0
    /\ index = 0
    /\ op = "new"
    /\ tok = NoTok
    /\ stack = <<>>
    /\ status = "span"
    /\ result = <<>>

\* a call of len() on the span
SpanLen ==
    /\ status = "span"
    /\ op = "new"
    /\ op' = "len"
    /\ result' \in len(input)
    /\ UNCHANGED <<input, chars, index, tok, stack, status>>

SpanSpec == SpanInit /\ [][SpanLen]_vars

----------------------------------------------------------------------------
(* Claims *)

Finished == status # "parsing"

\* C1: a self-closing element <NAME/>, with or without properties before
\* the "/>", parses successfully to exactly one Element node of that name
\* with no children and end_tag_span = None.
C1_SelfClosingParses ==
    \A n \in SelfClosingNames, p \in SelfClosingProps :
        (input = SelfClosingTag(n, p) /\ Finished) =>
            /\ status = "ok"
            /\ Len(result) = 1
            /\ result[1].node = "Element"
            /\ result[1].name = n
            /\ result[1].children = <<>>
            /\ result[1].end_tag_span = NoSpan

\* every Element of a node list, at any depth, has end_tag_span = Some
RECURSIVE AllClosed(_)
AllClosed(nodes) ==
    \A k \in 1..Len(nodes) :
        nodes[k].node = "Element" =>
            nodes[k].end_tag_span # NoSpan /\ AllClosed(nodes[k].children)

\* C2: for every well-formed input (each open tag <x> has its close tag
\* </x>, at any nesting depth) Parser::parse returns Ok and every Element of
\* the result has end_tag_span = Some.
C2_WellFormedParses ==
    (input \in WellFormed(MaxDepth) /\ Finished) => (status = "ok" /\ AllClosed(result))

\* C3: when the close tag's name differs from the open tag's name,
\* Parser::parse fails with UnmatchedTag carrying the opening name and the
\* closing name; it neither succeeds nor fails with another error.
C3_MismatchIsUnmatchedTag ==
    \A n \in Names, m \in Names, body \in WellFormed(MaxDepth - 1) :
        (n # m /\ input = OpenTag(n) \o body \o CloseTag(m) /\ Finished) =>
            /\ status = "err"
            /\ result.kind = "UnmatchedTag"
            /\ result.start_tag.item = n
            /\ result.end_tag.item = m

\* C4: the content of a raw-tag element that holds a bare '<' is not parsed
\* as markup: parsing succeeds, the content is the element's verbatim Text
\* child, and the element is closed by its close tag.
C4_RawContentVerbatim ==
    \A n \in RawNames, body \in RawBodies :
        (input = RawElement(n, body) /\ Finished) =>
            /\ status = "ok"
            /\ Len(result) = 1
            /\ result[1].node = "Element"
            /\ result[1].name = n
            /\ Len(result[1].children) = 1
            /\ result[1].children[1].node = "Text"
            /\ result[1].children[1].text = body
            /\ result[1].end_tag_span # NoSpan

\* C5: Parser::parse terminates on every input: no loop of the lexer or of
\* the parser reaches an iteration that consumes nothing and so repeats for
\* ever (status "hang"); the run goes on until parse has returned.
C5_ParseTerminates == status # "hang"

\* C6: once the input is consumed, every next() returns an Eof token whose
\* span is degenerate, start = end = length of the input, and never an
\* error.
C6_EofDegenerate ==
    [][(op' = "next" /\ chars = Len(input)) =>
          tok' = [res |-> "ok", tok |-> Token("Eof", Len(input), Len(input))]]_vars

\* C7: peek() and peek_next() leave the cursor (iterator position and
\* index) as it was, also when the call returns an error.
C7_PeekKeepsCursor ==
    [][op' \in {"peek", "peek_next"} => (chars' = chars /\ index' = index)]_vars

\* the props map of the start tag PropsTag(items): each literal's value
\* with the literal's span; a bare name as Bool(true) with the span of the
\* next significant token (significant) or of the very next token
RECURSIVE PropsFrom(_, _, _, _, _)
PropsFrom(items, k, off, m, significant) ==
    IF k > Len(items) THEN m
    ELSE LET it == items[k]
             name_end == off + 1 + Len(it.name)
             end == off + Len(ItemText(it))
             bare == IF ~significant THEN Span(name_end, name_end + 1)
                     ELSE IF k < Len(items)
                     THEN Span(end + 1, end + 1 + Len(items[k + 1].name))
                     ELSE Span(end, end + 1)
             span == IF it.lit # <<>> THEN Span(end - Len(it.lit), end) ELSE bare
         IN  PropsFrom(items, k + 1, end, Insert(m, it.name, Value(it.type, it.v, span)),
                       significant)
ExpectedProps(items, significant) == PropsFrom(items, 1, 2, EmptyMap, significant)

PropsParsed(items, significant) ==
    input = PropsTag(items) =>
        /\ status = "ok"
        /\ Len(result) = 1
        /\ result[1].node = "Element"
        /\ result[1].props = ExpectedProps(items, significant)

NumberLiteral(k, e) ==
    /\ k < e /\ e <= Len(input)
    /\ input[k + 1] \in Digits
    /\ \A j \in (k + 1)..e : input[j] \in Digits \cup {"_", "."}
    /\ \A j \in (k + 1)..e : input[j] = "." => (j < e /\ input[j + 1] \in Digits)
    /\ e < Len(input) => input[e + 1] \notin Digits \cup {"_", ".", "-"}
Dots(k, e) == Cardinality({j \in (k + 1)..e : input[j] = "."})

\* C9: next() at a digit-led literal of digits and '_' returns one Int
\* token whose span covers the literal; with exactly one '.' followed by a
\* digit, one Float token covering the literal; with two or more '.' each
\* followed by a digit it fails with InvalidNumber.
C9_NumberLiterals ==
    [][\A e \in 1..Len(input) :
          (op' = "next" /\ chars < Len(input) /\ NumberLiteral(chars, e)) =>
              IF Dots(chars, e) = 0
              THEN tok' = [res |-> "ok", tok |-> Token("Int", index, e)] /\ chars' = e
              ELSE IF Dots(chars, e) = 1
              THEN tok' = [res |-> "ok", tok |-> Token("Float", index, e)] /\ chars' = e
              ELSE tok'.res = "err" /\ tok'.tok.kind = "InvalidNumber"]_vars

\* next() has returned a Float token that spans a whole input with one '.'
C9_FloatLexed ==
    /\ op = "next"
    /\ tok = [res |-> "ok", tok |-> Token("Float", 0, Len(input))]
    /\ Dots(0, Len(input)) = 1

\* C10 (as stated): <* a <* b *> c *> lexes as one Comment token whose
\* span covers the entire sequence from the opening "<*" to the final "*>".
C10_CommentSpansSequence ==
    (input = NestedComment /\ op = "next" /\ tok.res = "ok" /\ tok.tok.kind = "Comment") =>
        tok.tok.span = Span(0, Len(NestedComment))

\* C10 (amended): <* a <* b *> c *> lexes as one Comment token whose span
\* covers the comment's body, from just after the opening "<*" to just
\* before the final "*>", and the next token is Eof: the nested comment
\* does not end the outer one.
C10_NestedCommentIsOneToken ==
    [][(input = NestedComment /\ op' = "next") =>
          IF chars = 0
          THEN /\ tok' = [res |-> "ok", tok |-> Token("Comment", 2, Len(NestedComment) - 2)]
               /\ chars' = Len(NestedComment)
          ELSE tok'.res = "ok" /\ tok'.tok.kind = "Eof"]_vars

\* next() has returned the Comment token of the nested comment, the cursor
\* at the end of the input
C10_NestedCommentLexed ==
    /\ input = NestedComment
    /\ op = "next"
    /\ tok.tok.kind = "Comment"
    /\ chars = Len(NestedComment)

\* C11: when a property's `=` is followed by a significant token that is
\* not Int, Float, Str, true, false or null, Parser::parse returns an Err
\* carrying a span: it neither returns Ok nor aborts without returning.
C11_BadValueIsErr ==
    \A t \in BadValueTails :
        (input = BadValueTag(t) /\ Finished) =>
            /\ status = "err"
            /\ result.span.start <= result.span.end

\* the parser is in parse_element at a '<' that the end of the input or a
\* '>' follows
AtLoneLesser ==
    /\ status = "parsing"
    /\ Len(stack) >= 2
    /\ Top.fn = "parse_element"
    /\ Top.pc = "open"
    /\ chars < Len(input)
    /\ input[chars + 1] = "<"
    /\ (chars + 1 = Len(input) \/ input[chars + 2] = ">")

\* C12: at a '<' token whose following token is '>' or the end of the
\* input the parser does not fail: it consumes the '<' only and adds a
\* Text node "<" with the span of that token to the content being parsed,
\* and parsing goes on from the next token.
C12_LoneLesserIsText ==
    [][AtLoneLesser =>
          /\ status' = "parsing"
          /\ chars' = chars + 1
          /\ index' = index + 1
          /\ stack' = Append(SubSeq(stack, 1, Len(stack) - 2),
                             [stack[Len(stack) - 1] EXCEPT
                                 !.children = Append(@, TextNode(<<"<">>, Span(index, index + 1)))])]_vars

\* "<>" has parsed to the Text nodes "<" and ">"
C12_LoneLesserParsed ==
    /\ input = <<"<", ">">>
    /\ status = "ok"
    /\ Len(result) = 2
    /\ result[1] = TextNode(<<"<">>, Span(0, 1))

\* C13: every token returned by next, peek or peek_next (Eof included) has
\* a span inside the input and well ordered: 0 <= start <= end <= length
\* of the input.
C13_TokenSpansInside ==
    (op \in {"next", "peek", "peek_next"} /\ tok.res = "ok") =>
        /\ 0 <= tok.tok.span.start
        /\ tok.tok.span.start <= tok.tok.span.end
        /\ tok.tok.span.end <= Len(input)

\* C14: where the upcoming tokens lex without error, the next() that
\* follows a peek() returns the token (kind and span) peek() returned, and
\* of the two next() that follow a peek_next() the second returns the
\* token peek_next() returned.
C14_PeekAgreesWithNext ==
    [][/\ (op = "peek" /\ tok.res = "ok" /\ op' = "next") => tok' = tok
       /\ (op = "peek_next" /\ tok.res = "ok" /\ op' = "next" /\ tok'.res = "ok") =>
              next(input, chars', index').tok = tok.tok]_vars

\* a next() has followed a peek() that returned a token other than Eof
\* from a cursor inside the input
C14_NextAfterPeek ==
    /\ op = "next"
    /\ tok.res = "ok"
    /\ tok.tok.kind = "Word"
    /\ tok.tok.span.start > 0
    /\ peek(input, tok.tok.span.start, tok.tok.span.start).tok = tok.tok

\* the offset of the space that starts the k-th property of PropsTag(items)
RECURSIVE ItemOffset(_, _)
ItemOffset(items, k) ==
    IF k = 1 THEN 2 ELSE ItemOffset(items, k - 1) + Len(ItemText(items[k - 1]))

\* the value the k-th property denotes, with the span of its literal or,
\* for a bare name, of the next significant token
ItemValue(items, k) ==
    LET end == ItemOffset(items, k) + Len(ItemText(items[k]))
    IN  Value(items[k].type, items[k].v,
              IF items[k].lit # <<>> THEN Span(end - Len(items[k].lit), end)
              ELSE IF k < Len(items) THEN Span(end + 1, end + 1 + Len(items[k + 1].name))
              ELSE Span(end, end + 1))

Repeats(items) == \E j, k \in 1..Len(items) : j < k /\ items[j].name = items[k].name
IsLast(items, k) == \A j \in (k + 1)..Len(items) : items[j].name # items[k].name

\* C15: when a property name occurs more than once in a start tag, parsing
\* succeeds and props holds one entry for the name, with the value and the
\* span of its last occurrence.
C15_LastOccurrenceWins ==
    Finished => \A items \in PropSeqs :
        (Repeats(items) /\ input = PropsTag(items)) =>
            /\ status = "ok"
            /\ Len(result) = 1
            /\ DOMAIN result[1].props = {items[k].name : k \in 1..Len(items)}
            /\ \A k \in 1..Len(items) :
                  IsLast(items, k) => result[1].props[items[k].name] = ItemValue(items, k)

\* <a n=1_0 n=2> has parsed: n is Int(2) with the span of the second literal
C15_RepeatedNameParsed ==
    /\ input = <<"<", "a", " ", "n", "=", "1", "_", "0", " ", "n", "=", "2", ">">>
    /\ status = "ok"
    /\ DOMAIN result[1].props = {<<"n">>}
    /\ result[1].props[<<"n">>] = Value("Int", 2, Span(11, 12))

\* C16: every call of Lexer::next returns; a '*' that no '>' follows and
\* a '<' that no '*' follows inside a comment are consumed as comment
\* content, so that <* a * b *> lexes as one Comment token up to the
\* balancing "*>".
C16_NextReturns ==
    /\ op = "next" => tok.res # "hang"
    /\ (input = StarInComment /\ op = "next" /\ chars > 0) =>
           (tok.res = "ok" /\ tok.tok.kind \in {"Comment", "Eof"} /\ chars = Len(input))

\* C17: in parse_text every iteration of the loop consumes a token: when
\* a comment directly follows a run of text, the parser moves past the
\* comment and Parser::parse returns.
C17_TextBeforeCommentReturns ==
    \A t \in TextComments : input = t => status \in {"parsing", "ok", "err"}

\* C18: at a '<' directly followed by '/' and then a character other than
\* '>', next() returns one LCloser token covering "</" and leaves the
\* cursor just after the '/'.
C18_LCloserLexed ==
    [][(/\ op' = "next"
        /\ chars + 2 < Len(input)
        /\ input[chars + 1] = "<"
        /\ input[chars + 2] = "/"
        /\ input[chars + 3] # ">") =>
          /\ tok' = [res |-> "ok", tok |-> Token("LCloser", index, index + 2)]
          /\ chars' = chars + 2]_vars

\* C19: at a '/' directly followed by '>', next() returns one RCloser
\* token covering "/>" and leaves the cursor just after the '>'.
C19_RCloserLexed ==
    [][(/\ op' = "next"
        /\ chars + 1 < Len(input)
        /\ input[chars + 1] = "/"
        /\ input[chars + 2] = ">") =>
          /\ tok' = [res |-> "ok", tok |-> Token("RCloser", index, index + 2)]
          /\ chars' = chars + 2]_vars

\* C20: inside a raw-tag element, content up to the next '<' is never
\* tokenized: whatever characters it holds, it is captured exactly and
\* untrimmed as one Text child and no lex error is raised for it.
C20_RawContentNotLexed ==
    \A n \in RawNames, body \in PlainBodies :
        (input = PlainRawElement(n, body) /\ Finished) =>
            /\ status = "ok"
            /\ Len(result) = 1
            /\ result[1].node = "Element"
            /\ result[1].name = n
            /\ Len(result[1].children) = 1
            /\ result[1].children[1].node = "Text"
            /\ result[1].children[1].text = body

\* s without the '-' it may start with
Unsign(s) == IF s # <<>> /\ s[1] = "-" THEN Tail(s) ELSE s

\* s is an optional '-', then digits and '_' with at least one digit and
\* dots '.' in all
NumberText(s, dots) ==
    /\ \A k \in 1..Len(Unsign(s)) : Unsign(s)[k] \in Digits \cup {"_", "."}
    /\ \E k \in 1..Len(Unsign(s)) : Unsign(s)[k] \in Digits
    /\ Cardinality({k \in 1..Len(Unsign(s)) : Unsign(s)[k] = "."}) = dots

\* C21: the source text of every Int or Float token the lexer emits is an
\* optional leading '-' followed by at least one digit (with '_'
\* separators and, for Float, one '.'), so that parse_int and parse_float
\* can convert it.
C21_NumberTokensConvert ==
    (op = "next" /\ tok.res = "ok" /\ tok.tok.kind \in {"Int", "Float"}) =>
        /\ InRange(input, tok.tok.span.start, tok.tok.span.end)
        /\ NumberText(Slice(input, tok.tok.span.start, tok.tok.span.end),
                      IF tok.tok.kind = "Int" THEN 0 ELSE 1)

\* C22: when Parser::parse returns Ok the whole input has been consumed:
\* the cursor is at the end of the input and the lexer's next token is
\* Eof.
C22_OkConsumesInput ==
    status = "ok" =>
        /\ chars = Len(input)
        /\ peek(input, chars, index).tok.kind = "Eof"

\* input[k+1..e] is a digit, then digits and '_', then a '.' at e that no
\* digit follows
DotNotFollowed(k, e) ==
    /\ k + 1 < e /\ e <= Len(input)
    /\ input[k + 1] \in Digits
    /\ \A j \in (k + 1)..(e - 1) : input[j] \in Digits \cup {"_"}
    /\ input[e] = "."
    /\ (e = Len(input) \/ input[e + 1] \notin Digits)

\* C23: a number in which a '.' is not followed by a digit is rejected
\* with InvalidNumber, at the end of the input and before a non-digit
\* character alike; it does not lex as an Int token followed by Dot.
C23_DotWithoutDigitRejected ==
    [][(op' = "next" /\ \E e \in 1..Len(input) : DotNotFollowed(chars, e)) =>
          (tok'.res = "err" /\ tok'.tok.kind = "InvalidNumber")]_vars

\* C24: the span of the Comment token of a comment that lexes is exactly
\* the body, from right after the opening "<*" to right before the final
\* balancing "*>", wherever nested comments stand in the body.
C24_CommentSpanIsBody ==
    [][(op' = "next" /\ chars = 0 /\ input \in BalancedComments) =>
          /\ tok' = [res |-> "ok", tok |-> Token("Comment", 2, Len(input) - 2)]
          /\ chars' = Len(input)]_vars

\* the parser is in an element's start tag or after its content, and the
\* input has ended
AtEndInElement ==
    /\ status = "parsing"
    /\ Len(stack) >= 2
    /\ chars = Len(input)
    /\ Top.fn \in {"parse_props", "parse_element"}
    /\ Top.fn = "parse_element" => Top.pc \in {"tag", "close"}

RECURSIVE EndClosedNodes(_, _, _)
EndClosedNodes(doc, d, off) ==
    IF doc = <<>> THEN <<>>
    ELSE IF d = 0 THEN <<TextNode(doc, Span(off, off + Len(doc)))>>
    ELSE <<ElementNode(<<doc[2]>>, EmptyMap,
                       EndClosedNodes(SubSeq(doc, 4, Len(doc) - 3), d - 1, off + 3),
                       Span(off, off + 3),
                       Some(Span(off + Len(doc) - 3, off + Len(doc))),
                       Span(off, off + Len(doc)))>>

\* C26: "</>" is one End token covering its three characters and closes
\* the innermost open element whatever its name: <a><b>x</></> parses to
\* a holding b holding Text x, each element's end_tag_span the span of
\* its own "</>" and its node span running from its '<' to the end of
\* that "</>".
C26_EndClosesInnermost ==
    Finished => \A d \in 1..MaxDepth :
        input \in EndClosed(d) =>
            (status = "ok" /\ result = EndClosedNodes(input, d, 0))

\* <a><b>x</></> has parsed; the inner element's "</>" is at 7..10
C26_FragmentParsed ==
    /\ input = FragmentClosed
    /\ status = "ok"
    /\ result[1].end_tag_span = Some(Span(10, 13))
    /\ result[1].children[1].name = <<"b">>
    /\ result[1].children[1].end_tag_span = Some(Span(7, 10))
    /\ result[1].children[1].children = <<TextNode(<<"x">>, Span(6, 7))>>

\* C27: for an input whose "<*" comment never balances before the end of
\* the input (no '*' or '<' in its body outside comment delimiters), next()
\* returns a Comment token, not an error, with a span inside the input and
\* the cursor at the end of the input, and the following next() returns
\* Eof.
C27_UnterminatedCommentLexed ==
    [][(input \in UnterminatedComments /\ op' = "next") =>
          IF chars = 0
          THEN /\ tok'.res = "ok"
               /\ tok'.tok.kind = "Comment"
               /\ 0 <= tok'.tok.span.start
               /\ tok'.tok.span.start <= tok'.tok.span.end
               /\ tok'.tok.span.end <= Len(input)
               /\ chars' = Len(input)
          ELSE tok'.res = "ok" /\ tok'.tok.kind = "Eof"]_vars

\* next() has returned Eof after the Comment token of <*a<*b
C27_EofAfterUnterminated ==
    /\ input = <<"<", "*", "a", "<", "*", "b">>
    /\ op = "next"
    /\ tok.tok.kind = "Eof"
    /\ chars = Len(input)

\* C28: after every successful next() the lexer's index is the byte offset
\* in the source of the next unread character, also when multi-byte
\* characters were consumed outside string literals. (Stated for the tokens
\* other than Eof, after which no character is unread.)
C28_IndexIsByteOffset ==
    (op = "next" /\ tok.res = "ok" /\ tok.tok.kind # "Eof") =>
        index = ByteOffset(input, chars)

\* the spans of toks tile src: the first starts at 0, each starts where the
\* one before ends, the last ends at the length of src
Tiles(toks, src) ==
    IF toks = <<>> THEN src = <<>>
    ELSE /\ toks[1].span.start = 0
         /\ \A k \in 1..(Len(toks) - 1) : toks[k + 1].span.start = toks[k].span.end
         /\ toks[Len(toks)].span.end = ByteOffset(src, Len(src))

\* C29: for every comment-free input that lexes without error, the tokens
\* Compiler::lex returns tile the input (also with "\r\n" line endings), so
\* the slices of their spans put together are the input. (Stated for the
\* inputs of one-byte characters.)
C29_TokensTileInput ==
    (op = "lex" /\ result.res = "ok"
       /\ (\A j \in 1..Len(input) : len_utf8(input[j]) = 1)
       /\ (\A k \in 1..Len(result.toks) : result.toks[k].kind # "Comment"))
    => Tiles(result.toks, input)

\* the tokens l.toks that Compiler::lex returns are one run of text: there
\* is a token, the first is one parse_expr hands to parse_text (not a
\* Comment), and none is a '<', End or LCloser token
IsTextRun(l) ==
    /\ l.res = "ok"
    /\ l.toks # <<>>
    /\ l.toks[1].kind # "Comment"
    /\ \A k \in 1..Len(l.toks) : l.toks[k].kind \notin {"Lesser", "End", "LCloser"}

\* the source text of the tokens toks, put together
RECURSIVE RunText(_, _)
RunText(src, toks) ==
    IF toks = <<>> THEN <<>>
    ELSE Slice(src, toks[1].span.start, toks[1].span.end) \o RunText(src, Tail(toks))

\* the children the run toks gives: one Text node of the trimmed text, from
\* the first token to the last, or nothing when the text trims to ""
RunNodes(src, toks) ==
    IF trim(RunText(src, toks)) = <<>> THEN <<>>
    ELSE <<TextNode(trim(RunText(src, toks)),
                    Span(toks[1].span.start, toks[Len(toks)].span.end))>>

\* C30: in non-raw mode a run of consecutive tokens up to the next '<', End
\* or LCloser token or the end of the input becomes one Text node whose text
\* is the source text of those tokens put together and trimmed, and whose
\* span runs from the first to the last token of the run; a run that trims
\* to the empty string adds no node. (Stated for the inputs that are one
\* run.)
C30_TextRunIsOneNode ==
    Finished => \A l \in {lex(input)} :
        IsTextRun(l) => (status = "ok" /\ result = RunNodes(input, l.toks))

\* what the claim says of the literal whose opening quote is quote and whose
\* body starts at character number k of src (counted from 1): "Str" with
\* close = the number of characters up to and including the first unescaped
\* quote, "InvalidEscape" at a backslash before a character that is no
\* escape, "UnterminatedStr" when src ends first
RECURSIVE StrScan(_, _, _)
StrScan(src, quote, k) ==
    IF k > Len(src) THEN [kind |-> "UnterminatedStr", close |-> 0]
    ELSE IF src[k] = quote THEN [kind |-> "Str", close |-> k]
    ELSE IF src[k] # "\\" THEN StrScan(src, quote, k + 1)
    ELSE IF k + 1 > Len(src) THEN [kind |-> "UnterminatedStr", close |-> 0]
    ELSE IF src[k + 1] \in {"\"", "\\", "'", "n", "t", "0"} THEN StrScan(src, quote, k + 2)
    ELSE [kind |-> "InvalidEscape", close |-> 0]

\* next() is called with the cursor at a quote character
AtQuote == chars < Len(input) /\ input[chars + 1] \in {"\"", "'"}

\* C31: a string literal opened by '"' or "'" ends at the first unescaped
\* occurrence of the same quote (the other quote may stand unescaped
\* inside) and gives one Str token spanning from the opening to the closing
\* quote inclusive; a backslash before a character other than '"', '\',
\* "'", 'n', 't', '0' gives InvalidEscape, and the end of the input before
\* the closing quote (also right after a backslash) gives UnterminatedStr
\* with the opening quote.
C31_StringLiteralLexed ==
    [][(op' = "next" /\ AtQuote) =>
          \E e \in {StrScan(input, input[chars + 1], chars + 2)} :
              IF e.kind = "Str"
              THEN /\ tok'.res = "ok"
                   /\ tok'.tok.kind = "Str"
                   /\ tok'.tok.span = Span(index, index')
                   /\ chars' = e.close
                   /\ index' - index = ByteOffset(input, e.close) - ByteOffset(input, chars)
              ELSE /\ tok'.res = "err"
                   /\ tok'.tok.kind = e.kind
                   /\ e.kind = "UnterminatedStr" => tok'.tok.str = <<input[chars + 1]>>]_vars

\* next() has returned the Str token of "'" followed by x: the single quote
\* inside did not end the literal
C31_OtherQuoteInside ==
    /\ input = <<"\"", "'", "\"", "x">>
    /\ op = "next"
    /\ tok = [res |-> "ok", tok |-> [kind |-> "Str", str |-> <<"'">>, span |-> Span(0, 3)]]
    /\ chars = 3

\* C32: for every span with start <= end, the length that
\* ariadne::Span::len reports is end - start, and computing it never
\* underflows.
C32_LenIsEndMinusStart ==
    (op = "len" /\ input.start <= input.end) =>
        (result.res = "ok" /\ result.v = input.end - input.start)

====
